---- MODULE Spec2Model ----
(***************************************************************************)
(* The element-interaction layer of the end-to-end suite: the TestHelpers  *)
(* class of utils/test-helpers.js, driven by the page objects.             *)
(*                                                                         *)
(* One call of one TestHelpers operation runs against a page whose DOM,    *)
(* overlay, load state and network change on their own.  Every `await` of  *)
(* an operation is one step: the automation engine polls the step's        *)
(* condition once per clock quantum until it holds, a non-recoverable      *)
(* error is raised, or the step's timeout has elapsed.                     *)
(***************************************************************************)
EXTENDS Integers, Sequences, FiniteSets, TLC

\* ------------------------------------------------------------- bounds
\* Candidate nodes of the page that the query can match, in document order.
MaxNodes == 2
\* Longest text handed to safeFill.
MaxLen == 2
\* maxlength attribute of a truncating input field.
FieldMaxLength == 1
\* The explicit timeout a caller passes in waitForElement's options (ms).
CallerTimeoutMs == 2000
\* The clock quantum (ms): the engine polls a pending condition once per
\* quantum, and the page changes between polls.
QuantumMs == 500

\* Test cases of the test file the runner executes.
MaxTests == 3
\* Logical CPU cores of the largest machine the runner is started on.
MaxCores == 4

\* Open/close cycles of the cart a test performs.
MaxCycles == 2

\* Longest text the cart counter shows.
MaxCounterLen == 2

\* Most <img> elements on the page under the image-loading test.
MaxImages == 3

\* ------------------------------------------------- program constants (ms)
SettleDelayMs == 100
HoverDelayMs == 200
ExistsTimeoutMs == 1000
DisappearTimeoutMs == 5000
ApiTimeoutMs == 10000
ActionTimeoutMs == 10 * 1000
SetupWaitMs == 3000
FcpFallbackMs == 5000
LcpFallbackMs == 3000
TestTimeoutMs == 30 * 1000
NavigationTimeoutMs == 15 * 1000

\* A timeout in quanta, and a fixed delay in quanta (a delay shorter than a
\* quantum still takes one).
Ticks(ms) == ms \div QuantumMs
DelayTicks(ms) == (ms + QuantumMs - 1) \div QuantumMs

\* --------------------------------------------------------- the query
\* HomePage.addToCartButtons: the alternatives of one logical target, in
\* the order they are written.
Query == << ".add-to-cart", "[data-testid=add-to-cart]" >>
Alternatives == DOMAIN Query
Nodes == 1 .. MaxNodes

\* The alternative a candidate node matches: the nodes take the alternatives
\* in turn, so that with more nodes than alternatives two match the same one.
NodeAlt(n) == ((n - 1) % Len(Query)) + 1

Detached == [att |-> FALSE, vis |-> FALSE]
NodeStates == {Detached} \cup [att : {TRUE}, vis : BOOLEAN]

\* ------------------------------------------------------ text and fields
Chars == {"a"}
Texts == UNION {[1 .. n -> Chars] : n \in 0 .. MaxLen}
Upper(c) == IF c = "a" THEN "A" ELSE c
Prefix(s, n) == IF Len(s) <= n THEN s ELSE SubSeq(s, 1, n)
FieldKinds == {"accepts", "rejects", "truncates", "transforms"}

\* What an input field holds after fill(value) on an emptied field.
FieldAfterFill(kind, value) ==
    CASE kind = "accepts"    -> value
      [] kind = "rejects"    -> << >>
      [] kind = "truncates"  -> Prefix(value, FieldMaxLength)
      [] kind = "transforms" -> [i \in DOMAIN value |-> Upper(value[i])]

VARIABLES
    dom,          \* node -> [att, vis]: attached to the document, visible
    overlay,      \* an overlay covers the target
    loadState,    \* "loading" | "domcontentloaded" | "networkidle"
    responded,    \* a 200 response with the awaited URL pattern has arrived
    op,           \* the operation in flight, or "idle"
    step,         \* index of the current await in Steps(op)
    elapsed,      \* quanta spent in the current await
    phase,        \* "idle" | "running" | "done"
    timeoutOpt,   \* options.timeout of the call in ms, 0 when not given
    forceOpt,     \* options.force of the call: "unset" | "true" | "false"
    text,         \* the value handed to safeFill
    matched,      \* node the visible wait resolved to, 0 when none
    probed,       \* alternatives the engine evaluated in the last poll
    seenVisible,  \* alternatives seen visible during a waitForElement call
    fieldValue,   \* content of the input field
    readBack,     \* what inputValue() returned
    clicks,       \* pointer actions dispatched by the call
    clears,       \* clear() actions performed by the call
    fills,        \* fill() actions performed by the call
    clickedCovered, \* the pointer action was dispatched onto a covered target
    raised,       \* error raised inside the call, "none" when none
    outcome,      \* "none" | "returned" | "threw"
    retval        \* elementExists' result: "none" | "true" | "false"

helperVars == << dom, overlay, loadState, responded, op, step, elapsed, phase,
                 timeoutOpt, forceOpt, text, matched, probed, seenVisible,
                 fieldValue, readBack, clicks, clears, fills, clickedCovered,
                 raised, outcome, retval >>

envVars == << dom, overlay, loadState, responded >>
callVars == << op, timeoutOpt, forceOpt, text >>

\* The test runner: the configuration it loaded, the test cases of one file
\* and the worker processes that execute them.
VARIABLES
    envCI,        \* process.env.CI: {} when unset, else {value}
    cores,        \* logical CPU cores of the machine
    attempts,     \* test -> executions started
    tstate,       \* test -> "queued" | "running" | "passed" | "failed"
    slot,         \* worker -> the test it executes, 0 when free
    wstep,        \* worker -> "free" | "beforeEach" | "body"
    homePage,     \* worker -> page wrapped by the describe-scope homePage
    actedOn       \* worker -> page the running test body acted on

runnerVars == << envCI, cores, attempts, tstate, slot, wstep, homePage, actedOn >>

\* A test driving the cart modal through the HomePage page object.
VARIABLES
    cartModal,    \* "detached" | "hidden" | "visible"
    appPending,   \* the application's pending reaction: "none" | "open" | "close"
    appKind,      \* how the application closes the modal: "unmounts" | "hides"
    pageOp,       \* page-object operation in flight or last ended
    pageStep,     \* index of the current await in PageSteps(pageOp)
    pageElapsed,  \* quanta spent in the current await
    pagePhase,    \* "idle" | "running" | "returned" | "threw"
    cycles        \* open/close cycles completed

modalVars == << cartModal, appPending, appKind, pageOp, pageStep, pageElapsed,
                pagePhase, cycles >>

\* A page-object operation, or a test flow over page-object operations,
\* executed statement by statement.
VARIABLES
    prog,         \* the operation or flow: "none" or a member of Programs
    progPc,       \* index of the statement to execute next
    progFlag,     \* outcome of the last condition: "unset" | "found" | "notFound"
    progPhase,    \* "idle" | "running" | "returned" | "threw"
    progDone,     \* names of the statements completed, in order
    progRaised,   \* why it raised: "none" | "page" | "selector"
    openModals    \* modals the executed operations left open

progVars == << prog, progPc, progFlag, progPhase, progDone, progRaised, openModals >>
pageVars == << modalVars, progVars >>

\* The checks the test bodies make themselves.
VARIABLES
    waTest,       \* the WhatsApp test running: "none" or one of WhatsAppTests
    waPc,         \* its position: "idle" | "click" | "awaitPage" | "expect" |
                  \*   "close" | "catch" | "passed" | "failed"
    popup,        \* the page the click opened: {} or {url}
    waError,      \* what was raised inside the try block, "none" when nothing
    envBaseURL,   \* process.env.BASE_URL: {} when unset, else {value}
    pageUrl,      \* page.url() of the logo tests
    logoPc,       \* "idle" | "click" | "verify" | "passed" | "failed"
    counter,      \* the cart counter: [vis, text]
    countResult   \* what getCartItemCount returned last: {} or {value}

checkVars == << waTest, waPc, popup, waError, envBaseURL, pageUrl, logoPc,
                counter, countResult >>

\* The image-loading test of the performance suite.
VARIABLES
    images,       \* the <img> elements of the page, each "loaded" | "broken" | "hidden"
    imgIdx,       \* i: images examined so far
    loadedImages, \* the test's counter of loaded images
    failedImages, \* the test's counter of failed images
    imgPc         \* "idle" | "loop" | "verify" | "passed" | "failed"

imageVars == << images, imgIdx, loadedImages, failedImages, imgPc >>

\* globalSetup(config), run once before the tests.
VARIABLES
    nodeEnv,      \* process.env.NODE_ENV: {} when unset, else {value}
    webServer,    \* config.webServer: {} when undefined, else {object}
    setupPc,      \* "idle" | "env" | "log" | "wait" | "completed" | "raised"
    setupWaited   \* quanta spent waiting for the development server

setupVars == << nodeEnv, webServer, setupPc, setupWaited >>

\* The in-page measurement promise of a Core Web Vitals test.
VARIABLES
    metric,       \* "none" | "FCP" | "LCP"
    promise,      \* "none" | "pending" | "value" | "null"
    measured,     \* quanta since the promise was created
    timerFired,   \* the setTimeout callback of the promise has run
    testPc        \* "idle" | "evaluate" | "expect" | "passed" | "timedOut"

measureVars == << metric, promise, measured, timerFired, testPc >>

suiteVars == << checkVars, imageVars, setupVars, measureVars >>

\* One invocation of run-tests.sh.
VARIABLES
    shCmd,        \* $1: {} when absent, else {word}
    shArg,        \* $2: {} when absent, else {word}
    hasConfig,    \* playwright.config.js exists in the working directory
    appUp,        \* curl reaches http://localhost:3000
    shPc,         \* "start" | "case" | "check" | "select" | "tool" | "finish" | "exited"
    checked,      \* check_app_running returned 0 in this invocation
    runs,         \* Playwright test runs started
    toolExit,     \* exit status of the external command run: {} or {status}
    exitStatus,   \* exit status of the script, -1 while it runs
    completed     \* the line "Script execution completed!" was printed

cliVars == << shCmd, shArg, hasConfig, appUp, shPc, checked, runs, toolExit,
              exitStatus, completed >>

vars == << helperVars, runnerVars, pageVars, suiteVars, cliVars >>
nonHelperVars == << runnerVars, pageVars, suiteVars, cliVars >>
nonRunnerVars == << helperVars, pageVars, suiteVars, cliVars >>
nonPageVars == << helperVars, runnerVars, suiteVars, cliVars >>
nonModalVars == << progVars, nonPageVars >>
nonProgVars == << modalVars, nonPageVars >>
nonSuiteVars == << helperVars, runnerVars, pageVars, cliVars >>
nonCheckVars == << imageVars, setupVars, measureVars, nonSuiteVars >>
nonImageVars == << checkVars, setupVars, measureVars, nonSuiteVars >>
nonSetupVars == << checkVars, imageVars, measureVars, nonSuiteVars >>
nonMeasureVars == << checkVars, imageVars, setupVars, nonSuiteVars >>
nonCliVars == << helperVars, runnerVars, pageVars, suiteVars >>

\* ------------------------------------------------------- the operations
LocatorOps == {"waitForElement", "safeClick", "safeFill", "elementExists",
               "getTextContent", "hover", "waitForElementToDisappear",
               "simulateMobileTouch"}
PointerOps == {"safeClick", "hover", "simulateMobileTouch"}
Ops == LocatorOps \cup {"waitForPageLoad", "waitForAPIResponse"}

\* waitForElement: the two awaits of test-helpers.js:33-34.
waitForElement == << "waitVisible", "waitAttached" >>

\* Variants: a click dispatched again after the first; a click dispatched
\* before the target was awaited.
safeClickRepeated == waitForElement \o << "click", "click", "settle" >>
safeClickUnawaited == << "click" >> \o waitForElement \o << "settle" >>
\* safeClick: await the target, click it once, let the page settle.
safeClick == waitForElement \o << "click", "settle" >>

\* safeFill: await the target, clear it, fill it, read the value back, compare.
safeFill == waitForElement \o << "clear", "fill", "inputValue", "expect" >>

\* The awaits of each operation, in program order.
Steps(o) ==
    CASE o = "waitForPageLoad"           -> << "loadNetworkidle", "loadDom" >>
      [] o = "waitForElement"            -> waitForElement
      [] o = "safeClick"                 -> safeClick
      [] o = "safeFill"                  -> safeFill
      [] o = "waitForAPIResponse"        -> << "waitResponse" >>
      [] o = "elementExists"             -> << "existsWait" >>
      [] o = "getTextContent"            -> waitForElement \o << "textContent" >>
      [] o = "hover"                     -> waitForElement \o << "hoverAct", "hoverSettle" >>
      [] o = "waitForElementToDisappear" -> << "waitDetached" >>
      [] o = "simulateMobileTouch"       -> waitForElement \o << "tap" >>
      [] OTHER                           -> << >>

CurStep == IF phase = "running" THEN Steps(op)[step] ELSE "none"

\* Variant: force only when the caller asks for it.
ForceOptIn(opt) == opt = "true"
\* click({ force: true, ...options }): the force the engine is given.
ForceEffective(opt) == IF opt = "unset" THEN TRUE ELSE opt = "true"

\* Variant: the wait for disappearance is satisfied by a hidden element.
DisappearStateHidden == "hidden"
\* waitFor({ state: 'detached', timeout }): the state waitForElementToDisappear awaits.
DisappearState == "detached"

\* The condition each await polls.
StepCond(s) ==
    CASE s = "waitVisible"     -> "visible"
      [] s = "waitAttached"    -> "attached"
      [] s = "existsWait"      -> "attached"
      [] s = "waitDetached"    -> DisappearState
      [] s = "click"           -> IF ForceEffective(forceOpt) THEN "forced" ELSE "actionable"
      [] s = "hoverAct"        -> "actionable"
      [] s = "tap"             -> "actionable"
      [] s = "clear"           -> "editable"
      [] s = "fill"            -> "editable"
      [] s = "inputValue"      -> "attached"
      [] s = "textContent"     -> "attached"
      [] s = "settle"          -> "delay"
      [] s = "hoverSettle"     -> "delay"
      [] s = "loadNetworkidle" -> "networkidle"
      [] s = "loadDom"         -> "domcontentloaded"
      [] s = "waitResponse"    -> "response"
      [] OTHER                 -> "now"

LocatorConds ==
    {"visible", "attached", "detached", "hidden", "actionable", "forced", "editable"}

\* Milliseconds the await may take (for a delay: the delay itself).
StepBudgetMs(s) ==
    CASE s = "waitVisible"     -> IF op = "waitForElement" /\ timeoutOpt > 0
                                    THEN timeoutOpt ELSE ActionTimeoutMs
      [] s = "existsWait"      -> ExistsTimeoutMs
      [] s = "waitDetached"    -> DisappearTimeoutMs
      [] s = "waitResponse"    -> ApiTimeoutMs
      [] s = "loadNetworkidle" -> NavigationTimeoutMs
      [] s = "loadDom"         -> NavigationTimeoutMs
      [] s = "settle"          -> SettleDelayMs
      [] s = "hoverSettle"     -> HoverDelayMs
      [] OTHER                 -> ActionTimeoutMs

StepBudget(s) ==
    IF s \in {"settle", "hoverSettle"} THEN DelayTicks(StepBudgetMs(s))
    ELSE Ticks(StepBudgetMs(s))

\* No await of the layer is given more time than the navigation timeout.
ClockCap == Ticks(NavigationTimeoutMs)

\* ----------------------------------------------------------- the engine
\* page.locator(selector): the nodes the comma-separated list resolves to.
Resolved == {n \in Nodes : dom[n].att}
Element == IF Resolved = {} THEN 0 ELSE CHOOSE n \in Resolved : \A m \in Resolved : n <= m
ElementVisible == Element # 0 /\ dom[Element].vis

\* One poll of a condition: "ok", "retry", or the error it raises.
Verdict(c) ==
    IF c \in LocatorConds /\ Cardinality(Resolved) > 1 THEN "StrictModeViolation"
    ELSE CASE c = "visible"    -> IF ElementVisible THEN "ok" ELSE "retry"
           [] c = "attached"   -> IF Element # 0 THEN "ok" ELSE "retry"
           [] c = "detached"   -> IF Element = 0 THEN "ok" ELSE "retry"
           [] c = "hidden"     -> IF ElementVisible THEN "retry" ELSE "ok"
           [] c = "editable"   -> IF ElementVisible THEN "ok" ELSE "retry"
           [] c = "actionable" -> IF ElementVisible /\ ~overlay THEN "ok" ELSE "retry"
           [] c = "forced"     -> IF Element = 0 THEN "retry"
                                  ELSE IF dom[Element].vis THEN "ok" ELSE "NotVisible"
           [] c = "delay"      -> IF elapsed >= StepBudget(CurStep) THEN "ok" ELSE "retry"
           [] c = "networkidle" -> IF loadState = "networkidle" THEN "ok" ELSE "retry"
           [] c = "domcontentloaded" -> IF loadState # "loading" THEN "ok" ELSE "retry"
           [] c = "response"   -> IF responded THEN "ok" ELSE "retry"
           [] OTHER            -> "ok"

\* The alternatives one poll evaluates: the whole list is one selector.
Probe(c) == IF c \in LocatorConds THEN Alternatives ELSE {}

\* Variant: a wait given no timeout (timeout: 0).
NoTimeout(e, budget) == FALSE
\* A wait is over once its timeout has elapsed.
TimedOut(e, budget) == e >= budget

\* Variant: the value read back is not compared.
ValueUnchecked(got, want) == TRUE
\* expect(inputValue).toBe(value)
ValueVerified(got, want) == got = want

\* Variants: no handler at all; a handler around safeClick as well.
CatchesNothing(o) == FALSE
CatchesClickToo(o) == o \in {"elementExists", "safeClick"}
\* The try/catch of elementExists: the only handler in the class.
Catches(o) == o = "elementExists"

VisibleAlts == {NodeAlt(n) : n \in {m \in Nodes : dom[m].att /\ dom[m].vis}}

HelpersIdle ==
    /\ dom = [n \in Nodes |-> Detached]
    /\ overlay = FALSE
    /\ loadState = "loading"
    /\ responded = FALSE
    /\ op = "idle"
    /\ step = 0
    /\ elapsed = 0
    /\ phase = "idle"
    /\ timeoutOpt = 0
    /\ forceOpt = "unset"
    /\ text = << >>
    /\ matched = 0
    /\ probed = {}
    /\ seenVisible = {}
    /\ fieldValue = << >>
    /\ readBack = << >>
    /\ clicks = 0
    /\ clears = 0
    /\ fills = 0
    /\ clickedCovered = FALSE
    /\ raised = "none"
    /\ outcome = "none"
    /\ retval = "none"

\* ------------------------------------------------------- the environment
\* The page renders, hides or removes one candidate node.
DomChange ==
    /\ phase = "running" /\ op \in LocatorOps
    /\ \E n \in Nodes, s \in NodeStates :
         /\ s # dom[n]
         /\ dom' = [dom EXCEPT ![n] = s]
         /\ seenVisible' = IF op = "waitForElement" /\ s.att /\ s.vis
                             THEN seenVisible \cup {NodeAlt(n)} ELSE seenVisible
    /\ UNCHANGED << overlay, loadState, responded, callVars, step, elapsed, phase,
                    matched, probed, fieldValue, readBack, clicks, clears, fills, clickedCovered,
                    raised, outcome, retval >>
    /\ UNCHANGED nonHelperVars

\* An overlay appears over, or disappears from, the target.
OverlayChange ==
    /\ phase = "running" /\ op \in PointerOps
    /\ overlay' = ~overlay
    /\ UNCHANGED << dom, loadState, responded, callVars, step, elapsed, phase,
                    matched, probed, seenVisible, fieldValue, readBack, clicks, clears, fills,
                    clickedCovered, raised, outcome, retval >>
    /\ UNCHANGED nonHelperVars

\* The document finishes parsing, then the network goes idle.
LoadProgress ==
    /\ phase = "running" /\ op = "waitForPageLoad"
    /\ loadState # "networkidle"
    /\ loadState' = IF loadState = "loading" THEN "domcontentloaded" ELSE "networkidle"
    /\ UNCHANGED << dom, overlay, responded, callVars, step, elapsed, phase,
                    matched, probed, seenVisible, fieldValue, readBack, clicks, clears, fills,
                    clickedCovered, raised, outcome, retval >>
    /\ UNCHANGED nonHelperVars

\* A response matching the URL pattern with status 200 arrives.
ResponseArrives ==
    /\ phase = "running" /\ op = "waitForAPIResponse"
    /\ ~responded
    /\ responded' = TRUE
    /\ UNCHANGED << dom, overlay, loadState, callVars, step, elapsed, phase,
                    matched, probed, seenVisible, fieldValue, readBack, clicks, clears, fills,
                    clickedCovered, raised, outcome, retval >>
    /\ UNCHANGED nonHelperVars

\* ------------------------------------------------------------- the calls
Call(o, t, f, v) ==
    /\ phase = "idle"
    /\ op' = o /\ timeoutOpt' = t /\ forceOpt' = f /\ text' = v
    /\ phase' = "running" /\ step' = 1 /\ elapsed' = 0
    /\ UNCHANGED << envVars, matched, probed, seenVisible, fieldValue, readBack,
                    clicks, clears, fills, clickedCovered, raised, outcome, retval >>
    /\ UNCHANGED nonHelperVars

CallWaitForElement ==
    \E t \in {0, CallerTimeoutMs} : Call("waitForElement", t, "unset", << >>)
CallSafeClick ==
    \E f \in {"unset", "true", "false"} : Call("safeClick", 0, f, << >>)
CallSafeFill ==
    \E v \in Texts : Call("safeFill", 0, "unset", v)
CallOther ==
    \E o \in Ops \ {"waitForElement", "safeClick", "safeFill"} :
        Call(o, 0, "unset", << >>)

\* The current await is over: go to the next one, or return.
Advance ==
    IF step = Len(Steps(op))
      THEN /\ phase' = "done" /\ outcome' = "returned"
           /\ retval' = IF op = "elementExists" THEN "true" ELSE retval
           /\ UNCHANGED << step, elapsed >>
      ELSE /\ step' = step + 1 /\ elapsed' = 0
           /\ UNCHANGED << phase, outcome, retval >>

\* An error leaves the current await: caught by elementExists, raised to the
\* caller by everything else.
Throw(e) ==
    /\ raised' = e
    /\ phase' = "done"
    /\ IF Catches(op)
         THEN outcome' = "returned" /\ retval' = "false"
         ELSE outcome' = "threw" /\ retval' = retval
    /\ UNCHANGED << step, elapsed >>

\* The polled condition holds: the await completes with its effect.
StepSucceeds ==
    /\ phase = "running" /\ CurStep # "expect"
    /\ Verdict(StepCond(CurStep)) = "ok"
    /\ probed' = Probe(StepCond(CurStep))
    /\ matched' = IF CurStep = "waitVisible" THEN Element ELSE matched
    /\ clicks' = IF CurStep = "click" THEN clicks + 1 ELSE clicks
    /\ clears' = IF CurStep = "clear" THEN clears + 1 ELSE clears
    /\ fills' = IF CurStep = "fill" THEN fills + 1 ELSE fills
    /\ clickedCovered' = IF CurStep = "click" THEN overlay ELSE clickedCovered
    /\ IF CurStep = "fill"
         THEN \E k \in FieldKinds : fieldValue' = FieldAfterFill(k, text)
         ELSE fieldValue' = IF CurStep = "clear" THEN << >> ELSE fieldValue
    /\ readBack' = IF CurStep = "inputValue" THEN fieldValue ELSE readBack
    /\ Advance
    /\ UNCHANGED << envVars, callVars, seenVisible, raised >>
    /\ UNCHANGED nonHelperVars

\* The condition does not hold yet and time is left: poll again a quantum later.
StepRetries ==
    /\ phase = "running" /\ CurStep # "expect"
    /\ Verdict(StepCond(CurStep)) = "retry"
    /\ ~TimedOut(elapsed, StepBudget(CurStep))
    /\ elapsed' = IF elapsed < ClockCap THEN elapsed + 1 ELSE elapsed
    /\ probed' = Probe(StepCond(CurStep))
    /\ UNCHANGED << envVars, callVars, step, phase, matched, seenVisible, fieldValue,
                    readBack, clicks, clears, fills, clickedCovered, raised, outcome, retval >>
    /\ UNCHANGED nonHelperVars

\* The condition does not hold and the await's timeout has elapsed.
StepTimesOut ==
    /\ phase = "running" /\ CurStep # "expect"
    /\ Verdict(StepCond(CurStep)) = "retry"
    /\ TimedOut(elapsed, StepBudget(CurStep))
    /\ probed' = Probe(StepCond(CurStep))
    /\ Throw("Timeout")
    /\ UNCHANGED << envVars, callVars, matched, seenVisible, fieldValue, readBack,
                    clicks, clears, fills, clickedCovered >>
    /\ UNCHANGED nonHelperVars

\* The engine refuses the poll: several nodes resolved, or a forced pointer
\* action on a node that is not visible.
StepThrows ==
    /\ phase = "running" /\ CurStep # "expect"
    /\ Verdict(StepCond(CurStep)) \in {"StrictModeViolation", "NotVisible"}
    /\ probed' = Probe(StepCond(CurStep))
    /\ Throw(Verdict(StepCond(CurStep)))
    /\ UNCHANGED << envVars, callVars, matched, seenVisible, fieldValue, readBack,
                    clicks, clears, fills, clickedCovered >>
    /\ UNCHANGED nonHelperVars

\* safeFill's last statement: compare what was read back with the value.
ExpectValue ==
    /\ phase = "running" /\ CurStep = "expect"
    /\ IF ValueVerified(readBack, text)
         THEN Advance /\ UNCHANGED raised
         ELSE Throw("ValueMismatch")
    /\ UNCHANGED << envVars, callVars, matched, probed, seenVisible, fieldValue,
                    readBack, clicks, clears, fills, clickedCovered >>
    /\ UNCHANGED nonHelperVars

Next ==
    \/ CallWaitForElement
    \/ CallSafeClick
    \/ CallSafeFill
    \/ CallOther
    \/ StepSucceeds
    \/ StepRetries
    \/ StepTimesOut
    \/ StepThrows
    \/ ExpectValue
    \/ DomChange
    \/ OverlayChange
    \/ LoadProgress
    \/ ResponseArrives

\* The engine keeps polling and the clock keeps running while a call is in flight.
EngineStep == StepSucceeds \/ StepRetries \/ StepTimesOut \/ StepThrows \/ ExpectValue

\* ============================================================ the runner
\* The runner with the configuration of playwright.config.js, executing the
\* test cases of the Shopping Cart suite: every worker process loads the test
\* file itself, so the describe-scope homePage exists once per worker.
Tests == 1 .. MaxTests

\* An environment variable is {} when unset and {value} when set; in a
\* condition, undefined and the empty string are falsy.
EnvValues == {{}} \cup {{v} : v \in {"", "1", "true", "false"}}
Truthy(v) == v # {} /\ v # {""}

\* Variant: retries granted whatever the environment.
retriesAlways(ci) == 2
\* retries: process.env.CI ? 2 : 0
retries(ci) == IF Truthy(ci) THEN 2 ELSE 0

\* The runner's own worker count when the configuration leaves it undefined:
\* half of the cores, at least one.
DefaultWorkers(n) == IF n \div 2 >= 1 THEN n \div 2 ELSE 1
\* workers: process.env.CI ? 1 : undefined
workers(ci, n) == IF Truthy(ci) THEN 1 ELSE DefaultWorkers(n)

Slots == 1 .. DefaultWorkers(MaxCores)
NoPage == << 0, 0 >>
\* The page fixture of the test a worker executes: a fresh page (and context)
\* for every execution of every test.
Fixture(w) == << slot[w], attempts[slot[w]] >>

\* Variant: the page object is built for the first test only.
HomePageBuiltOnce(cur, page) == IF cur = NoPage THEN page ELSE cur
\* beforeEach: homePage = new HomePage(page)
BeforeEachHomePage(cur, page) == page

RunnerRest ==
    /\ attempts = [t \in Tests |-> 0]
    /\ tstate = [t \in Tests |-> "queued"]
    /\ slot = [w \in Slots |-> 0]
    /\ wstep = [w \in Slots |-> "free"]
    /\ homePage = [w \in Slots |-> NoPage]
    /\ actedOn = [w \in Slots |-> NoPage]

RunnerIdle == envCI = {} /\ cores = 1 /\ RunnerRest

\* A free worker takes the next queued test and is handed a fresh page.
RunnerAssigns ==
    /\ \E w \in Slots, t \in Tests :
         /\ w <= workers(envCI, cores)
         /\ slot[w] = 0 /\ tstate[t] = "queued"
         /\ slot' = [slot EXCEPT ![w] = t]
         /\ attempts' = [attempts EXCEPT ![t] = @ + 1]
         /\ tstate' = [tstate EXCEPT ![t] = "running"]
         /\ wstep' = [wstep EXCEPT ![w] = "beforeEach"]
    /\ UNCHANGED << envCI, cores, homePage, actedOn >>
    /\ UNCHANGED nonRunnerVars

\* The beforeEach hook builds the page objects on the test's page.
BeforeEach ==
    /\ \E w \in Slots :
         /\ wstep[w] = "beforeEach"
         /\ homePage' = [homePage EXCEPT ![w] = BeforeEachHomePage(@, Fixture(w))]
         /\ wstep' = [wstep EXCEPT ![w] = "body"]
    /\ UNCHANGED << envCI, cores, attempts, tstate, slot, actedOn >>
    /\ UNCHANGED nonRunnerVars

\* The test body acts through homePage: on the page that object wraps.
BodyActs ==
    /\ \E w \in Slots :
         /\ wstep[w] = "body"
         /\ actedOn[w] # homePage[w]
         /\ actedOn' = [actedOn EXCEPT ![w] = homePage[w]]
    /\ UNCHANGED << envCI, cores, attempts, tstate, slot, wstep, homePage >>
    /\ UNCHANGED nonRunnerVars

\* The test body ends without an error: the worker goes on to the next test,
\* its module state as the test left it.
TestPasses ==
    /\ \E w \in Slots :
         /\ wstep[w] = "body"
         /\ tstate' = [tstate EXCEPT ![slot[w]] = "passed"]
         /\ slot' = [slot EXCEPT ![w] = 0]
         /\ wstep' = [wstep EXCEPT ![w] = "free"]
         /\ actedOn' = [actedOn EXCEPT ![w] = NoPage]
    /\ UNCHANGED << envCI, cores, attempts, homePage >>
    /\ UNCHANGED nonRunnerVars

\* The hook or the body raises: the test is queued again while retries are
\* left, and the worker process is replaced by a new one.
TestFails ==
    /\ \E w \in Slots :
         /\ wstep[w] \in {"beforeEach", "body"}
         /\ tstate' = [tstate EXCEPT ![slot[w]] =
                          IF attempts[slot[w]] <= retries(envCI)
                            THEN "queued" ELSE "failed"]
         /\ slot' = [slot EXCEPT ![w] = 0]
         /\ wstep' = [wstep EXCEPT ![w] = "free"]
         /\ homePage' = [homePage EXCEPT ![w] = NoPage]
         /\ actedOn' = [actedOn EXCEPT ![w] = NoPage]
    /\ UNCHANGED << envCI, cores, attempts >>
    /\ UNCHANGED nonRunnerVars

NextRunner ==
    \/ RunnerAssigns
    \/ BeforeEach
    \/ BodyActs
    \/ TestPasses
    \/ TestFails

\* ========================================================= the cart modal
\* HomePage.openCart and closeCart, called in turn by a test.  The modal
\* changes only as the application's reaction to a click.
OnTarget(awaits, t) == [i \in DOMAIN awaits |-> [await |-> awaits[i], on |-> t]]

\* openCart: safeClick(cartButton), then waitForElement(cartModal).
openCart == OnTarget(safeClick, "cartButton") \o OnTarget(waitForElement, "cartModal")

\* Variant: the close button is clicked and nothing is awaited after it.
closeCartUnawaited == OnTarget(safeClick, "cartCloseButton")
\* closeCart: safeClick(cartCloseButton), then waitForElementToDisappear(cartModal).
closeCart ==
    OnTarget(safeClick, "cartCloseButton")
        \o OnTarget(Steps("waitForElementToDisappear"), "cartModal")

\* TequilaPage.viewTequilaDetails: isVisible() of the quick-view button,
\* its click(), then waitForElement(productModal).
viewTequilaDetails ==
    OnTarget(<< "isVisible", "rawClick" >>, "quickViewBtn")
        \o OnTarget(waitForElement, "productModal")

\* TequilaPage.closeProductModal: safeClick(modalClose), then
\* waitForElementToDisappear(productModal).
closeProductModal ==
    OnTarget(safeClick, "modalClose")
        \o OnTarget(Steps("waitForElementToDisappear"), "productModal")

PageSteps(o) ==
    CASE o = "openCart"           -> openCart
      [] o = "closeCart"          -> closeCart
      [] o = "viewTequilaDetails" -> viewTequilaDetails
      [] OTHER                    -> closeProductModal
PageStep == PageSteps(pageOp)[pageStep]

\* The cart button is part of the header and the quick-view button of a
\* product card; a close button is part of its modal.
TargetState(t) == IF t \in {"cartButton", "quickViewBtn"} THEN "visible" ELSE cartModal

\* One poll of the current await's condition on its target.
PageVerdict(c, t) ==
    CASE c = "visible"  -> IF TargetState(t) = "visible" THEN "ok" ELSE "retry"
      [] c = "attached" -> IF TargetState(t) # "detached" THEN "ok" ELSE "retry"
      [] c = "detached" -> IF TargetState(t) = "detached" THEN "ok" ELSE "retry"
      [] c = "hidden"   -> IF TargetState(t) = "visible" THEN "retry" ELSE "ok"
      [] c = "forced"   -> CASE TargetState(t) = "detached" -> "retry"
                             [] TargetState(t) = "hidden"   -> "NotVisible"
                             [] OTHER                       -> "ok"
      [] c = "delay"    -> IF pageElapsed >= StepBudget(PageStep.await) THEN "ok" ELSE "retry"
      [] OTHER          -> IF TargetState(t) = "visible" THEN "ok" ELSE "retry"

PagePoll == PageVerdict(StepCond(PageStep.await), PageStep.on)

PageIdle ==
    /\ cartModal = "detached" /\ appPending = "none" /\ appKind = "unmounts"
    /\ pageOp = "none" /\ pageStep = 0 /\ pageElapsed = 0
    /\ pagePhase = "idle" /\ cycles = 0
    /\ prog = "none" /\ progPc = 0 /\ progFlag = "unset" /\ progPhase = "idle"
    /\ progDone = << >> /\ progRaised = "none" /\ openModals = {}

CallPage(o) ==
    /\ pageOp' = o /\ pageStep' = 1 /\ pageElapsed' = 0 /\ pagePhase' = "running"
    /\ UNCHANGED << cartModal, appPending, appKind, cycles >>
    /\ UNCHANGED nonModalVars

\* The test opens the cart: first, or after a closeCart that returned.
CallOpenCart ==
    /\ pagePhase = "idle" \/ (pagePhase = "returned" /\ pageOp = "closeCart")
    /\ progPhase = "idle"
    /\ cycles < MaxCycles
    /\ CallPage("openCart")

\* The test closes the cart after an openCart that returned.
CallCloseCart ==
    /\ pagePhase = "returned" /\ pageOp = "openCart"
    /\ CallPage("closeCart")

\* The test opens the product modal: first, or after a closeProductModal
\* that returned.
CallViewTequilaDetails ==
    /\ pagePhase = "idle" \/ (pagePhase = "returned" /\ pageOp = "closeProductModal")
    /\ progPhase = "idle"
    /\ cycles < MaxCycles
    /\ CallPage("viewTequilaDetails")

\* The test closes the product modal after a viewTequilaDetails that returned.
CallCloseProductModal ==
    /\ pagePhase = "returned" /\ pageOp = "viewTequilaDetails"
    /\ CallPage("closeProductModal")

\* The current await completes: a click reaches the application, the last
\* await returns the operation.
PageStepSucceeds ==
    /\ pagePhase = "running" /\ PagePoll = "ok"
    /\ appPending' = IF PageStep.await \in {"click", "rawClick"}
                       THEN (IF PageStep.on \in {"cartButton", "quickViewBtn"}
                               THEN "open" ELSE "close")
                       ELSE appPending
    /\ IF pageStep = Len(PageSteps(pageOp))
         THEN /\ pagePhase' = "returned"
              /\ cycles' = IF pageOp \in {"closeCart", "closeProductModal"}
                             THEN cycles + 1 ELSE cycles
              /\ UNCHANGED << pageStep, pageElapsed >>
         ELSE /\ pageStep' = pageStep + 1 /\ pageElapsed' = 0
              /\ UNCHANGED << pagePhase, cycles >>
    /\ UNCHANGED << cartModal, appKind, pageOp >>
    /\ UNCHANGED nonModalVars

PageStepRetries ==
    /\ pagePhase = "running" /\ PagePoll = "retry"
    /\ ~TimedOut(pageElapsed, StepBudget(PageStep.await))
    /\ pageElapsed' = pageElapsed + 1
    /\ UNCHANGED << cartModal, appPending, appKind, pageOp, pageStep, pagePhase, cycles >>
    /\ UNCHANGED nonModalVars

\* The await's timeout elapsed, or the engine refused the action: the
\* operation raises to the test.
PageStepFails ==
    /\ pagePhase = "running"
    /\ \/ PagePoll = "NotVisible"
       \/ PagePoll = "retry" /\ TimedOut(pageElapsed, StepBudget(PageStep.await))
    /\ pagePhase' = "threw"
    /\ UNCHANGED << cartModal, appPending, appKind, pageOp, pageStep, pageElapsed, cycles >>
    /\ UNCHANGED nonModalVars

\* The application reacts to the last click: it mounts and shows the modal,
\* or hides it and, when it unmounts closed modals, removes it.
AppReacts ==
    /\ appPending # "none"
    /\ \E m \in {"detached", "hidden", "visible"} :
         /\ m # cartModal
         /\ IF appPending = "open"
              THEN m = "visible" \/ (m = "hidden" /\ cartModal = "detached")
              ELSE \/ m = "hidden" /\ cartModal = "visible"
                   \/ m = "detached" /\ appKind = "unmounts"
         /\ cartModal' = m
         /\ appPending' = IF \/ m = "visible"
                             \/ m = "detached"
                             \/ (m = "hidden" /\ appPending = "close" /\ appKind = "hides")
                            THEN "none" ELSE appPending
    /\ UNCHANGED << appKind, pageOp, pageStep, pageElapsed, pagePhase, cycles >>
    /\ UNCHANGED nonModalVars

\* ------------------------------------------ page-object operations
\* One statement of an operation: what it does ("helper": a TestHelpers call,
\* "probe": a condition, "raw": a Playwright call on a locator or the page,
\* "call": another page-object operation), the kind of value it passes as
\* selector, and the branch it belongs to.
St(do, name, arg, when) == [do |-> do, name |-> name, arg |-> arg, when |-> when]

\* Variant: Enter is pressed whether or not the button was clicked.
searchProductsBothSubmits ==
    << St("helper", "safeFill", "string", "always"),
       St("probe", "elementExists", "string", "always"),
       St("helper", "safeClick", "string", "found"),
       St("raw", "press", "string", "always"),
       St("helper", "waitForPageLoad", "none", "always") >>
\* HomePage.searchProducts
searchProducts ==
    << St("helper", "safeFill", "string", "always"),
       St("probe", "elementExists", "string", "always"),
       St("helper", "safeClick", "string", "found"),
       St("raw", "press", "string", "notFound"),
       St("helper", "waitForPageLoad", "none", "always") >>

\* if (await control.isVisible()) { interaction; waitForPageLoad() }
IfVisible(interaction) ==
    << St("probe", "isVisible", "none", "always"),
       St("raw", interaction, "none", "found"),
       St("helper", "waitForPageLoad", "none", "found") >>

\* safeClick(this.<selector>), then what follows it.
ClickThen(rest) == << St("helper", "safeClick", "string", "always") >> \o rest

PageLoad == << St("helper", "waitForPageLoad", "none", "always") >>
Pause == << St("raw", "waitForTimeout", "none", "always") >>
Invoke(name, when) == << St("call", name, "none", when) >>
Condition == << St("probe", "condition", "none", "always") >>

\* The operations of TequilaPage and HomePage that call TestHelpers or pause
\* on a control, and the test flows that open a modal.
Body(o) ==
    CASE o = "TequilaPage.selectCategory" ->
             << St("helper", "safeClick", "locator", "always") >> \o PageLoad
      [] o = "TequilaPage.selectAllCategories" -> ClickThen(PageLoad)
      [] o = "TequilaPage.sortProducts"        -> IfVisible("selectOption")
      [] o = "TequilaPage.filterByBrand"       -> IfVisible("selectOption")
      [] o = "TequilaPage.searchTequilas" ->
             << St("probe", "isVisible", "none", "always"),
                St("helper", "safeFill", "locator", "found"),
                St("raw", "press", "none", "found"),
                St("helper", "waitForPageLoad", "none", "found") >>
      [] o = "TequilaPage.viewTequilaDetails" ->
             << St("probe", "isVisible", "none", "always"),
                St("raw", "click", "none", "found"),
                St("helper", "waitForElement", "string", "found") >>
      [] o = "TequilaPage.closeProductModal" ->
             ClickThen(<< St("helper", "waitForElementToDisappear", "string", "always") >>)
      [] o = "TequilaPage.loadMoreProducts"    -> IfVisible("click")
      [] o = "HomePage.clickLogo"              -> ClickThen(<< >>)
      [] o = "HomePage.navigateToTequila"      -> ClickThen(PageLoad)
      [] o = "HomePage.navigateToBlog"         -> ClickThen(PageLoad)
      [] o = "HomePage.searchProducts"         -> searchProducts
      [] o = "HomePage.filterByCategory"       -> IfVisible("selectOption")
      [] o = "HomePage.sortProducts"           -> IfVisible("selectOption")
      [] o = "HomePage.openCart" ->
             ClickThen(<< St("helper", "waitForElement", "string", "always") >>)
      [] o = "HomePage.closeCart" ->
             ClickThen(<< St("helper", "waitForElementToDisappear", "string", "always") >>)
      [] o = "HomePage.proceedToCheckout" ->
             Invoke("openCart", "always") \o ClickThen(Pause)
      [] o = "HomePage.clickWhatsAppButton"    -> ClickThen(Pause)
      [] o = "should open and close cart modal smoothly" ->
             Invoke("openCart", "always") \o Invoke("closeCart", "always")
      [] o = "should remove individual items from cart" ->
             Invoke("removeFirstCartItem", "always")
      [] o = "should clear entire cart" -> Invoke("clearCart", "always")
      [] o = "should navigate to WhatsApp checkout" ->
             Condition \o Invoke("proceedToCheckout", "found")
      [] o = "should handle empty cart checkout gracefully" ->
             Condition \o Invoke("clearCart", "found")
                 \o Invoke("openCart", "always") \o Invoke("closeCart", "always")
      [] o = "should open and close product modal" ->
             Condition \o Invoke("viewTequilaDetails", "found")
                 \o Invoke("viewTequilaDetails", "found")
                 \o Invoke("closeProductModal", "found")
      [] OTHER -> << >>

PageObjectOps ==
    {"TequilaPage.selectCategory", "TequilaPage.selectAllCategories",
     "TequilaPage.sortProducts", "TequilaPage.filterByBrand",
     "TequilaPage.searchTequilas", "TequilaPage.viewTequilaDetails",
     "TequilaPage.closeProductModal", "TequilaPage.loadMoreProducts",
     "HomePage.clickLogo", "HomePage.navigateToTequila", "HomePage.navigateToBlog",
     "HomePage.searchProducts", "HomePage.filterByCategory", "HomePage.sortProducts",
     "HomePage.openCart", "HomePage.closeCart", "HomePage.proceedToCheckout",
     "HomePage.clickWhatsAppButton"}

TestFlows ==
    {"should open and close cart modal smoothly",
     "should remove individual items from cart",
     "should clear entire cart",
     "should navigate to WhatsApp checkout",
     "should handle empty cart checkout gracefully",
     "should open and close product modal"}

Programs == PageObjectOps \cup TestFlows

\* The modal an operation leaves open, and the modal it closes.
Opens(name) ==
    CASE name \in {"openCart", "removeFirstCartItem", "clearCart", "proceedToCheckout"}
             -> {"cart"}
      [] name = "viewTequilaDetails" -> {"product"}
      [] OTHER -> {}
Closes(name) ==
    CASE name = "closeCart"         -> {"cart"}
      [] name = "closeProductModal" -> {"product"}
      [] OTHER -> {}

AtStatement == progPhase = "running" /\ progPc <= Len(Body(prog))
Cur == Body(prog)[progPc]
\* The statement is on the branch the last condition selected.
Selected == Cur.when = "always" \/ Cur.when = progFlag

\* A test calls the operation, or the runner starts the test flow.
ProgStart ==
    /\ progPhase = "idle" /\ pagePhase = "idle"
    /\ \E o \in Programs : prog' = o
    /\ progPc' = 1 /\ progPhase' = "running"
    /\ UNCHANGED << progFlag, progDone, progRaised, openModals >>
    /\ UNCHANGED nonProgVars

\* A statement of the branch not taken is passed over.
ProgSkips ==
    /\ AtStatement /\ ~Selected
    /\ progPc' = progPc + 1
    /\ UNCHANGED << prog, progFlag, progPhase, progDone, progRaised, openModals >>
    /\ UNCHANGED nonProgVars

\* A condition is evaluated on the page: isVisible() and elementExists()
\* answer true or false and never raise.
ProgProbe ==
    /\ AtStatement /\ Selected /\ Cur.do = "probe"
    /\ \E r \in {"found", "notFound"} : progFlag' = r
    /\ progPc' = progPc + 1
    /\ UNCHANGED << prog, progPhase, progDone, progRaised, openModals >>
    /\ UNCHANGED nonProgVars

\* A statement completes.  page.locator(selector) inside a helper takes a
\* selector string: a helper given a locator object cannot complete.
ProgStepOk ==
    /\ AtStatement /\ Selected /\ Cur.do # "probe"
    /\ Cur.arg # "locator"
    /\ progDone' = Append(progDone, Cur.name)
    /\ openModals' = IF Cur.do = "call"
                       THEN (openModals \cup Opens(Cur.name)) \ Closes(Cur.name)
                       ELSE openModals
    /\ progPc' = progPc + 1
    /\ UNCHANGED << prog, progFlag, progPhase, progRaised >>
    /\ UNCHANGED nonProgVars

\* A statement raises: the page did not let it complete, or the helper was
\* given a locator object as selector.
ProgStepThrows ==
    /\ AtStatement /\ Selected /\ Cur.do # "probe"
    /\ progPhase' = "threw"
    /\ progRaised' = IF Cur.arg = "locator" THEN "selector" ELSE "page"
    /\ UNCHANGED << prog, progPc, progFlag, progDone, openModals >>
    /\ UNCHANGED nonProgVars

\* The last statement is behind: the operation returns.
ProgReturns ==
    /\ progPhase = "running" /\ progPc > Len(Body(prog))
    /\ progPhase' = "returned"
    /\ UNCHANGED << prog, progPc, progFlag, progDone, progRaised, openModals >>
    /\ UNCHANGED nonProgVars

NextPage ==
    \/ ProgStart
    \/ ProgSkips
    \/ ProgProbe
    \/ ProgStepOk
    \/ ProgStepThrows
    \/ ProgReturns
    \/ CallOpenCart
    \/ CallCloseCart
    \/ CallViewTequilaDetails
    \/ CallCloseProductModal
    \/ PageStepSucceeds
    \/ PageStepRetries
    \/ PageStepFails
    \/ AppReacts

\* ===================================================== the tests' checks
\* A URL or a text is a sequence of tokens; a search in it is a search for a
\* token.
Contains(str, frag) == \E i \in DOMAIN str : str[i] = frag
EndsWith(str, frag) == str # << >> /\ str[Len(str)] = frag

\* ---- the WhatsApp checkout and button tests
WhatsAppTests == {"cartCheckout", "homeCheckout", "homeButton"}

\* The expect(url).toContain(...) lines of each test.
Expected(t) ==
    IF t = "cartCheckout" THEN {"api.whatsapp.com", "50687396001", "text="}
    ELSE {"api.whatsapp.com", "50687396001"}

\* Pages the application may open.
PopupUrls ==
    { << "https://", "api.whatsapp.com", "/send?phone=", "50687396001", "&", "text=", "Hola" >>,
      << "https://", "api.whatsapp.com", "/send?phone=", "50687396001" >>,
      << "https://", "api.whatsapp.com", "/send?phone=", "50600000000", "&", "text=", "Hola" >>,
      << "https://", "wa.me", "/", "50687396001" >>,
      << "about:blank" >> }

\* catch (error) { console.log(...) }: the errors the handler lets through.
Rethrown(e) == FALSE

\* ---- the logo tests
SiteUrl == << "https://galeriamexicanacr.com", "/" >>
DefaultBaseURL == << "http://localhost:3000" >>
BaseURLValues ==
    { {}, {<< >>}, {<< "https://galeriamexicanacr.com" >>},
      {<< "https://staging.galeriamexicanacr.com" >>} }

\* baseURL: process.env.BASE_URL || 'http://localhost:3000'
baseURL(env) ==
    IF env = {} \/ env = {<< >>} THEN DefaultBaseURL ELSE CHOOSE u \in env : TRUE

\* Values of the test language: strings and booleans.
JsString(str) == [type |-> "string", val |-> str]
JsBoolean(b) == [type |-> "boolean", val |-> IF b THEN << "true" >> ELSE << >>]
\* The empty string and false are falsy.
JsTruthy(v) == v.val # << >>
\* a || b: a when a is truthy, else b.
JsOr(a, b) == IF JsTruthy(a) THEN a ELSE b
\* expect(actual).toBe(expected): same type and same value.
toBe(actual, expected) == actual = expected

\* 'https://galeriamexicanacr.com/' || url.endsWith('/')
LogoExpected(url) == JsOr(JsString(SiteUrl), JsBoolean(EndsWith(url, "/")))

\* ---- the cart counter
CounterChars == {"0", "1", "-", " ", "a"}
CounterTexts == UNION {[1 .. n -> CounterChars] : n \in 0 .. MaxCounterLen}
IsDigit(c) == c \in {"0", "1"}
DigitValue(c) == IF c = "1" THEN 1 ELSE 0
NaN == [nan |-> TRUE, n |-> 0]
Num(n) == [nan |-> FALSE, n |-> n]

RECURSIVE SkipSpace(_)
SkipSpace(str) ==
    IF str # << >> /\ Head(str) = " " THEN SkipSpace(Tail(str)) ELSE str

\* The digits at the start of str, read as a decimal number after acc.
RECURSIVE ReadDigits(_, _)
ReadDigits(str, acc) ==
    IF str # << >> /\ IsDigit(Head(str))
      THEN ReadDigits(Tail(str), 10 * acc + DigitValue(Head(str)))
      ELSE acc

\* Variant: leading whitespace is not skipped.
parseIntNoTrim(str) ==
    LET neg == str # << >> /\ Head(str) = "-"
        body == IF neg THEN Tail(str) ELSE str
    IN  IF body = << >> \/ ~IsDigit(Head(body)) THEN NaN
        ELSE Num((IF neg THEN -1 ELSE 1) * ReadDigits(body, 0))
\* parseInt(text): leading whitespace skipped, an optional sign, then digits
\* up to the first other character; NaN without a digit.
parseInt(str) ==
    LET t == SkipSpace(str)
        neg == t # << >> /\ Head(t) = "-"
        body == IF neg THEN Tail(t) ELSE t
    IN  IF body = << >> \/ ~IsDigit(Head(body)) THEN NaN
        ELSE Num((IF neg THEN -1 ELSE 1) * ReadDigits(body, 0))

\* Variant: the parsed value is returned as it is.
OrZeroDropped(v) == v
\* v || 0: NaN and 0 are falsy.
OrZero(v) == IF v.nan \/ v.n = 0 THEN Num(0) ELSE v

getCartItemCount(c) == IF c.vis THEN OrZero(parseInt(c.text)) ELSE Num(0)

NoCounter == [vis |-> FALSE, text |-> << >>]

SuiteIdle ==
    /\ waTest = "none" /\ waPc = "idle" /\ popup = {} /\ waError = "none"
    /\ envBaseURL = {} /\ pageUrl = << >> /\ logoPc = "idle"
    /\ counter = NoCounter /\ countResult = {}
    /\ images = << >> /\ imgIdx = 0 /\ loadedImages = 0 /\ failedImages = 0
    /\ imgPc = "idle"
    /\ nodeEnv = {} /\ webServer = {} /\ setupPc = "idle" /\ setupWaited = 0
    /\ metric = "none" /\ promise = "none" /\ measured = 0 /\ timerFired = FALSE
    /\ testPc = "idle"

\* One test body, or the global setup, runs at a time.
Scenarios == {"whatsapp", "logo", "counter", "images", "setup", "measure"}
QuietOf(n) ==
    CASE n = "whatsapp" -> waPc = "idle"
      [] n = "logo"     -> logoPc = "idle"
      [] n = "counter"  -> counter = NoCounter /\ countResult = {}
      [] n = "images"   -> imgPc = "idle"
      [] n = "setup"    -> setupPc = "idle"
      [] OTHER          -> testPc = "idle"
Quiet(ns) == \A n \in ns : QuietOf(n)

\* A WhatsApp test reaches its try block.
WaStart ==
    /\ Quiet(Scenarios)
    /\ \E t \in WhatsAppTests : waTest' = t
    /\ waPc' = "click"
    /\ UNCHANGED << popup, waError, envBaseURL, pageUrl, logoPc, counter, countResult >>
    /\ UNCHANGED nonCheckVars

\* proceedToCheckout / clickWhatsAppButton: it raises, or it returns with the
\* application having opened a page or not.
WaClick ==
    /\ waPc = "click"
    /\ \/ waPc' = "catch" /\ waError' = "click" /\ popup' = popup
       \/ waPc' = "awaitPage" /\ waError' = waError /\ popup' = {}
       \/ \E u \in PopupUrls : waPc' = "awaitPage" /\ waError' = waError /\ popup' = {u}
    /\ UNCHANGED << waTest, envBaseURL, pageUrl, logoPc, counter, countResult >>
    /\ UNCHANGED nonCheckVars

\* await pagePromise: the new page, or the timeout of waitForEvent.
WaAwaitPage ==
    /\ waPc = "awaitPage"
    /\ IF popup # {} THEN waPc' = "expect" /\ waError' = waError
       ELSE waPc' = "catch" /\ waError' = "timeout"
    /\ UNCHANGED << waTest, popup, envBaseURL, pageUrl, logoPc, counter, countResult >>
    /\ UNCHANGED nonCheckVars

\* The expect lines: the first one that does not hold raises.
WaExpects ==
    /\ waPc = "expect"
    /\ IF \A u \in popup : \A frag \in Expected(waTest) : Contains(u, frag)
         THEN waPc' = "close" /\ waError' = waError
         ELSE waPc' = "catch" /\ waError' = "expect"
    /\ UNCHANGED << waTest, popup, envBaseURL, pageUrl, logoPc, counter, countResult >>
    /\ UNCHANGED nonCheckVars

\* The new page is closed and the test body ends.
WaClose ==
    /\ waPc = "close"
    /\ waPc' = "passed"
    /\ UNCHANGED << waTest, popup, waError, envBaseURL, pageUrl, logoPc, counter, countResult >>
    /\ UNCHANGED nonCheckVars

\* The catch block logs the error and the test body ends.
WaCatch ==
    /\ waPc = "catch"
    /\ waPc' = IF Rethrown(waError) THEN "failed" ELSE "passed"
    /\ UNCHANGED << waTest, popup, waError, envBaseURL, pageUrl, logoPc, counter, countResult >>
    /\ UNCHANGED nonCheckVars

\* A logo test starts on the tequila page of the configured base URL.
LogoStart ==
    /\ Quiet(Scenarios)
    /\ \E env \in BaseURLValues :
         /\ envBaseURL' = env
         /\ pageUrl' = baseURL(env) \o << "/", "tequila" >>
    /\ logoPc' = "click"
    /\ UNCHANGED << waTest, waPc, popup, waError, counter, countResult >>
    /\ UNCHANGED nonCheckVars

\* clickLogo, then the page load: the application shows the home page, the
\* home page at an anchor, or stays where it was.
ClickLogo ==
    /\ logoPc = "click"
    /\ \E dest \in {<< "/" >>, << "/", "#inicio" >>, << "/", "tequila" >>} :
         pageUrl' = baseURL(envBaseURL) \o dest
    /\ logoPc' = "verify"
    /\ UNCHANGED << waTest, waPc, popup, waError, envBaseURL, counter, countResult >>
    /\ UNCHANGED nonCheckVars

\* expect(url).toBe('https://galeriamexicanacr.com/' || url.endsWith('/'))
LogoVerify ==
    /\ logoPc = "verify"
    /\ logoPc' = IF toBe(JsString(pageUrl), LogoExpected(pageUrl))
                   THEN "passed" ELSE "failed"
    /\ UNCHANGED << waTest, waPc, popup, waError, envBaseURL, pageUrl, counter, countResult >>
    /\ UNCHANGED nonCheckVars

\* Adding, removing, editing a quantity, reloading or navigating: the page
\* shows, hides or rewrites the cart counter.
CounterChanges ==
    /\ Quiet(Scenarios \ {"counter"})
    /\ \E c \in [vis : BOOLEAN, text : CounterTexts] :
         c # counter /\ counter' = c
    /\ countResult' = {}
    /\ UNCHANGED << waTest, waPc, popup, waError, envBaseURL, pageUrl, logoPc >>
    /\ UNCHANGED nonCheckVars

GetCartItemCount ==
    /\ Quiet(Scenarios \ {"counter"})
    /\ countResult' = {getCartItemCount(counter)}
    /\ UNCHANGED << waTest, waPc, popup, waError, envBaseURL, pageUrl, logoPc, counter >>
    /\ UNCHANGED nonCheckVars

\* ---- the image-loading test
ImageStates == {"loaded", "broken", "hidden"}
Pages == UNION {[1 .. n -> ImageStates] : n \in 0 .. MaxImages}

\* a / b on JavaScript numbers: 0 / 0 is NaN.
Divide(a, b) == [nan |-> (a = 0 /\ b = 0), num |-> a, den |-> b]
\* expect(r).toBeGreaterThan(p / q): no comparison holds of NaN.
toBeGreaterThan(r, p, q) == ~r.nan /\ r.num * q > p * r.den

\* images.count() is taken and the loop is entered.
ImgStart ==
    /\ Quiet(Scenarios)
    /\ \E pg \in Pages : images' = pg
    /\ imgPc' = "loop"
    /\ UNCHANGED << imgIdx, loadedImages, failedImages >>
    /\ UNCHANGED nonImageVars

\* One iteration: an image that is not visible raises in toBeVisible and is
\* counted by the catch block; a visible one is counted by its natural size.
ImgIteration ==
    /\ imgPc = "loop" /\ imgIdx < Len(images)
    /\ IF images[imgIdx + 1] = "loaded"
         THEN loadedImages' = loadedImages + 1 /\ failedImages' = failedImages
         ELSE failedImages' = failedImages + 1 /\ loadedImages' = loadedImages
    /\ imgIdx' = imgIdx + 1
    /\ UNCHANGED << images, imgPc >>
    /\ UNCHANGED nonImageVars

\* After the loop: successRate = loadedImages / imageCount is compared to 0.8.
ImgVerify ==
    /\ imgPc = "loop" /\ imgIdx >= Len(images)
    /\ imgPc' = IF toBeGreaterThan(Divide(loadedImages, Len(images)), 8, 10)
                  THEN "passed" ELSE "failed"
    /\ UNCHANGED << images, imgIdx, loadedImages, failedImages >>
    /\ UNCHANGED nonImageVars

\* ---- globalSetup
NodeEnvValues == {{}} \cup {{v} : v \in {"", "test", "production"}}

\* webServer: process.env.CI ? undefined : {...}
webServerConfig(ci) == IF Truthy(ci) THEN {} ELSE {"object"}

\* Variant: NODE_ENV is set to 'test' whatever it was.
nodeEnvForced(v) == {"test"}
\* process.env.NODE_ENV || 'test'
nodeEnvOrTest(v) == IF Truthy(v) THEN v ELSE {"test"}

\* The runner calls globalSetup(config) with the configuration it loaded.
SetupStart ==
    /\ Quiet(Scenarios)
    /\ \E v \in NodeEnvValues : nodeEnv' = v
    /\ \E ci \in EnvValues : webServer' = webServerConfig(ci)
    /\ setupPc' = "env"
    /\ UNCHANGED setupWaited
    /\ UNCHANGED nonSetupVars

\* The missing-variable warning and the assignment to process.env.NODE_ENV.
SetupEnv ==
    /\ setupPc = "env"
    /\ nodeEnv' = nodeEnvOrTest(nodeEnv)
    /\ setupPc' = "log"
    /\ UNCHANGED << webServer, setupWaited >>
    /\ UNCHANGED nonSetupVars

\* The three log lines (config.use?.baseURL, config.projects?.map: absent
\* fields yield undefined), then if (config.webServer).
SetupLogs ==
    /\ setupPc = "log"
    /\ setupPc' = IF webServer # {} THEN "wait" ELSE "completed"
    /\ UNCHANGED << nodeEnv, webServer, setupWaited >>
    /\ UNCHANGED nonSetupVars

\* setTimeout(resolve, 3000) has not fired yet.
SetupWaits ==
    /\ setupPc = "wait" /\ setupWaited < Ticks(SetupWaitMs)
    /\ setupWaited' = setupWaited + 1
    /\ UNCHANGED << nodeEnv, webServer, setupPc >>
    /\ UNCHANGED nonSetupVars

\* The timer fires and the function logs its last line.
SetupCompletes ==
    /\ setupPc = "wait" /\ setupWaited >= Ticks(SetupWaitMs)
    /\ setupPc' = "completed"
    /\ UNCHANGED << nodeEnv, webServer, setupWaited >>
    /\ UNCHANGED nonSetupVars

\* The event loop runs the function to its end.
SetupStep == SetupEnv \/ SetupLogs \/ SetupWaits \/ SetupCompletes

\* ---- the paint measurements
Metrics == {"FCP", "LCP"}
FallbackMs(m) == IF m = "FCP" THEN FcpFallbackMs ELSE LcpFallbackMs

\* page.evaluate creates the promise: the observer is registered and the
\* timer is set.
MeasureStart ==
    /\ Quiet(Scenarios)
    /\ \E m \in Metrics : metric' = m
    /\ promise' = "pending" /\ testPc' = "evaluate"
    /\ UNCHANGED << measured, timerFired >>
    /\ UNCHANGED nonMeasureVars

\* The browser reports an entry to the observer: an FCP entry resolves the
\* promise with its start time, an LCP entry with its start time or null.
EntryReported ==
    /\ testPc = "evaluate" /\ promise = "pending"
    /\ \/ promise' = "value"
       \/ metric = "LCP" /\ promise' = "null"
    /\ UNCHANGED << metric, measured, timerFired, testPc >>
    /\ UNCHANGED nonMeasureVars

\* Time passes while the test awaits the promise.
MeasureTick ==
    /\ testPc = "evaluate" /\ promise = "pending"
    /\ measured < Ticks(TestTimeoutMs)
    /\ timerFired \/ measured < Ticks(FallbackMs(metric))
    /\ measured' = measured + 1
    /\ UNCHANGED << metric, promise, timerFired, testPc >>
    /\ UNCHANGED nonMeasureVars

\* The setTimeout callback runs.  FCP: resolve(null).  LCP: a second
\* observer is constructed and disconnected; resolve is not called.
TimerFires ==
    /\ testPc = "evaluate" /\ ~timerFired
    /\ measured = Ticks(FallbackMs(metric))
    /\ timerFired' = TRUE
    /\ promise' = IF metric = "FCP" /\ promise = "pending" THEN "null" ELSE promise
    /\ UNCHANGED << metric, measured, testPc >>
    /\ UNCHANGED nonMeasureVars

\* The promise settled: evaluate returns, and a value is compared with the
\* budget (a null is not).
EvaluateReturns ==
    /\ testPc = "evaluate" /\ promise \in {"value", "null"}
    /\ \/ testPc' = "passed"
       \/ promise = "value" /\ testPc' = "failed"
    /\ UNCHANGED << metric, promise, measured, timerFired >>
    /\ UNCHANGED nonMeasureVars

\* The test timeout of the configuration ends a test still awaiting.
TestTimesOut ==
    /\ testPc = "evaluate" /\ promise = "pending"
    /\ measured >= Ticks(TestTimeoutMs)
    /\ testPc' = "timedOut"
    /\ UNCHANGED << metric, promise, measured, timerFired >>
    /\ UNCHANGED nonMeasureVars

NextSuite ==
    \/ SetupStart
    \/ SetupEnv
    \/ SetupLogs
    \/ SetupWaits
    \/ SetupCompletes
    \/ MeasureStart
    \/ EntryReported
    \/ MeasureTick
    \/ TimerFires
    \/ EvaluateReturns
    \/ TestTimesOut
    \/ ImgStart
    \/ ImgIteration
    \/ ImgVerify
    \/ WaStart
    \/ WaClick
    \/ WaAwaitPage
    \/ WaExpects
    \/ WaClose
    \/ WaCatch
    \/ LogoStart
    \/ ClickLogo
    \/ LogoVerify
    \/ CounterChanges
    \/ GetCartItemCount

\* ========================================================= run-tests.sh
KnownSuites == {"homepage", "tequila", "cart", "accessibility", "performance", "all"}
KnownOptions == {"headed", "debug", "ui", "mobile", "ci"}
CmdWords == {"install", "check", "suite", "run", "report", "clean",
             "help", "--help", "-h", "deploy"}
ArgWords == KnownSuites \cup KnownOptions \cup {"checkout"}
\* A positional parameter: absent, empty, or a word.
ParamValues(words) == {{}, {""}} \cup {{w} : w \in words}

\* [ -z "$n" ]
IsEmpty(param) == param = {} \/ param = {""}
\* ${n:-default}
ParamOr(param, default) == IF IsEmpty(param) THEN default ELSE CHOOSE w \in param : TRUE

Cmd == ParamOr(shCmd, "help")
Arg == ParamOr(shArg, "")

\* Variant: the script without set -e.
ErrExitOff == FALSE
\* set -e: a command that fails outside a condition ends the script.
ErrExit == TRUE

\* Variant: the check reports success whatever curl says.
check_app_skipped(up) == 0
\* check_app_running: 0 when curl reaches the app, else 1.
check_app_running(up) == IF up THEN 0 ELSE 1

CliRest ==
    /\ shPc = "start" /\ checked = FALSE /\ runs = 0 /\ toolExit = {}
    /\ exitStatus = -1 /\ completed = FALSE

CliIdle == shCmd = {} /\ shArg = {} /\ hasConfig = TRUE /\ appUp = FALSE /\ CliRest

\* exit n, or the end of the script after a failed command under set -e.
ShExit(n) == shPc' = "exited" /\ exitStatus' = n

\* if [ ! -f "playwright.config.js" ]; then ... exit 1
ShConfigTest ==
    /\ shPc = "start"
    /\ IF hasConfig THEN shPc' = "case" /\ exitStatus' = exitStatus ELSE ShExit(1)
    /\ UNCHANGED << shCmd, shArg, hasConfig, appUp, checked, runs, toolExit, completed >>
    /\ UNCHANGED nonCliVars

\* case ${1:-help} in ...
ShCase ==
    /\ shPc = "case"
    /\ CASE Cmd \in {"install", "report"}   -> shPc' = "tool" /\ exitStatus' = exitStatus
         [] Cmd = "check"                   -> shPc' = "check" /\ exitStatus' = exitStatus
         [] Cmd \in {"suite", "run"}        ->
                IF IsEmpty(shArg) THEN ShExit(1)
                ELSE shPc' = "check" /\ exitStatus' = exitStatus
         [] Cmd \in {"clean", "help", "--help", "-h"} ->
                shPc' = "finish" /\ exitStatus' = exitStatus
         [] OTHER                           -> ShExit(1)
    /\ UNCHANGED << shCmd, shArg, hasConfig, appUp, checked, runs, toolExit, completed >>
    /\ UNCHANGED nonCliVars

\* check_app_running as the command of "check", or as
\* check_app_running || exit 1 of "suite" and "run".
ShCheckApp ==
    /\ shPc = "check"
    /\ checked' = (check_app_running(appUp) = 0)
    /\ IF check_app_running(appUp) = 0
         THEN shPc' = (IF Cmd = "check" THEN "finish" ELSE "select")
              /\ exitStatus' = exitStatus
         ELSE IF Cmd = "check" /\ ~ErrExit
                THEN shPc' = "finish" /\ exitStatus' = exitStatus
                ELSE ShExit(1)
    /\ UNCHANGED << shCmd, shArg, hasConfig, appUp, runs, toolExit, completed >>
    /\ UNCHANGED nonCliVars

\* run_test_suite / run_with_options: the case over the name.
ShSelect ==
    /\ shPc = "select"
    /\ IF Arg \in (IF Cmd = "suite" THEN KnownSuites ELSE KnownOptions)
         THEN shPc' = "tool" /\ exitStatus' = exitStatus
         ELSE ShExit(1)
    /\ UNCHANGED << shCmd, shArg, hasConfig, appUp, checked, runs, toolExit, completed >>
    /\ UNCHANGED nonCliVars

\* npm / npx: the external command runs and ends with some status; for
\* "suite" and "run" it is a Playwright test run.
ShTool ==
    /\ shPc = "tool"
    /\ runs' = IF Cmd \in {"suite", "run"} THEN runs + 1 ELSE runs
    /\ \E e \in {0, 1} :
         /\ toolExit' = {e}
         /\ IF e # 0 /\ ErrExit THEN ShExit(e)
            ELSE shPc' = "finish" /\ exitStatus' = exitStatus
    /\ UNCHANGED << shCmd, shArg, hasConfig, appUp, checked, completed >>
    /\ UNCHANGED nonCliVars

\* print_success "Script execution completed!" and the end of the script.
ShFinish ==
    /\ shPc = "finish"
    /\ completed' = TRUE
    /\ ShExit(0)
    /\ UNCHANGED << shCmd, shArg, hasConfig, appUp, checked, runs, toolExit >>
    /\ UNCHANGED nonCliVars

NextCli ==
    \/ ShConfigTest
    \/ ShCase
    \/ ShCheckApp
    \/ ShSelect
    \/ ShTool
    \/ ShFinish

\* ------------------------------------------------------ the specifications
\* One call of one TestHelpers operation.
Init == HelpersIdle /\ RunnerIdle /\ PageIdle /\ SuiteIdle /\ CliIdle
Spec == Init /\ [][Next]_vars
FairSpec == Spec /\ WF_vars(EngineStep)

\* One run of the runner over the test file.
InitRunner ==
    /\ HelpersIdle /\ PageIdle /\ SuiteIdle /\ CliIdle
    /\ envCI \in EnvValues /\ cores \in 1 .. MaxCores /\ RunnerRest
SpecRunner == InitRunner /\ [][NextRunner]_vars

\* One test opening and closing the cart, on an application of either kind.
InitPage ==
    /\ HelpersIdle /\ RunnerIdle /\ SuiteIdle /\ CliIdle
    /\ cartModal = "detached" /\ appPending = "none"
    /\ appKind \in {"unmounts", "hides"}
    /\ pageOp = "none" /\ pageStep = 0 /\ pageElapsed = 0
    /\ pagePhase = "idle" /\ cycles = 0
    /\ prog = "none" /\ progPc = 0 /\ progFlag = "unset" /\ progPhase = "idle"
    /\ progDone = << >> /\ progRaised = "none" /\ openModals = {}
SpecPage == InitPage /\ [][NextPage]_vars

\* The test bodies' own checks, one test body at a time.
InitSuite == HelpersIdle /\ RunnerIdle /\ PageIdle /\ SuiteIdle /\ CliIdle
SpecSuite == InitSuite /\ [][NextSuite]_vars
FairSpecSuite == SpecSuite /\ WF_vars(SetupStep)

\* One invocation of run-tests.sh, with any arguments, in any directory, with
\* the application up or down.
InitCli ==
    /\ HelpersIdle /\ RunnerIdle /\ PageIdle /\ SuiteIdle
    /\ shCmd \in ParamValues(CmdWords) /\ shArg \in ParamValues(ArgWords)
    /\ hasConfig \in BOOLEAN /\ appUp \in BOOLEAN
    /\ CliRest
SpecCli == InitCli /\ [][NextCli]_vars

\* ------------------------------------------------------------ the claims
Min(S) == CHOOSE x \in S : \A y \in S : x <= y
Ended(o) == op = o /\ phase = "done"
FailedAt(s) == phase = "done" /\ outcome = "threw" /\ Steps(op)[step] = s

\* C1: whenever a resolve call (waitForElement) ends while some alternative
\* of the query is visible, it has returned, and what it returned resolves to
\* the node of the first visible alternative in priority order, also when
\* several alternatives are matched at once.
C1_FirstPriorityWins ==
    (Ended("waitForElement") /\ VisibleAlts # {}) =>
        /\ outcome = "returned"
        /\ Element # 0
        /\ NodeAlt(Element) = Min(VisibleAlts)

\* C2: a resolve call during which no alternative was ever visible fails
\* with NotFound (the wait's timeout error), and only once the full timeout
\* budget has elapsed.
C2_NotFoundOnlyAfterBudget ==
    (Ended("waitForElement") /\ seenVisible = {}) =>
        /\ outcome = "threw"
        /\ raised = "Timeout"
        /\ elapsed >= StepBudget("waitVisible")

\* C3: safeFill returns only if the value read back from the field equals
\* the requested text, whatever the field did with the input; once the value
\* has been read back and differs, the call raises ValueMismatch.
C3_FillVerified ==
    Ended("safeFill") =>
        /\ outcome = "returned" => (readBack = text /\ fieldValue = text)
        /\ (Steps(op)[step] = "expect" /\ readBack # text) =>
               (outcome = "threw" /\ raised = "ValueMismatch")
        /\ raised = "ValueMismatch" => readBack # text

C3_Witness ==
    Ended("safeFill") /\ raised = "ValueMismatch" /\ fieldValue # << >>

C5_GoneOrTimeout ==
    Ended("waitForElementToDisappear") =>
        \/ outcome = "returned" /\ Resolved = {}
        \/ /\ outcome = "threw" /\ raised = "Timeout" /\ Resolved # {}
           /\ elapsed >= StepBudget("waitDetached")

\* C6: elementExists never raises to its caller and never takes longer than
\* its 1000 ms; it answers true only with the element attached, and answers
\* false, after the whole 1000 ms, when the element is absent.
C6_ExistsNeverThrows ==
    /\ (op = "elementExists" /\ phase = "running") => elapsed <= Ticks(ExistsTimeoutMs)
    /\ Ended("elementExists") =>
        /\ outcome = "returned" /\ retval \in {"true", "false"}
        /\ elapsed <= Ticks(ExistsTimeoutMs)
        /\ retval = "true" => (Cardinality(Resolved) = 1 /\ raised = "none")
        /\ Resolved = {} =>
               (retval = "false" /\ raised = "Timeout" /\ elapsed = Ticks(ExistsTimeoutMs))

C6_Witness ==
    Ended("elementExists") /\ Resolved = {} /\ retval = "false" /\ raised = "Timeout"

\* C7: every await of every operation stays within its timeout, and every
\* call that has begun ends (returns or fails), also when the page never
\* reaches the awaited state.
C7_EveryCallEnds ==
    /\ [](phase = "running" => elapsed <= StepBudget(CurStep))
    /\ (phase = "running") ~> (phase = "done")

C7_Witness ==
    /\ Ended("waitForPageLoad") /\ raised = "Timeout" /\ loadState = "loading"
    /\ elapsed = Ticks(NavigationTimeoutMs)

\* C8: outside elementExists an error raised inside a call always reaches
\* the caller and no later step of the call runs; a call that returns has
\* run all its steps without an error.  elementExists alone turns an error
\* into a return value.
C8_NoSwallowedFailure ==
    phase = "done" =>
        /\ (raised # "none" /\ op # "elementExists") => outcome = "threw"
        /\ (outcome = "returned" /\ op # "elementExists") =>
               (raised = "none" /\ step = Len(Steps(op)))
        /\ op = "elementExists" => outcome = "returned"
        /\ (outcome = "threw" /\ Steps(op)[step] \in {"waitVisible", "waitAttached"}) =>
               (clicks = 0 /\ readBack = << >> /\ fieldValue = << >>)

C8_Witness ==
    Ended("hover") /\ raised = "Timeout" /\ outcome = "threw" /\ Steps(op)[step] = "hoverAct"

\* C9: within one resolve call the alternatives are polled one at a time:
\* no poll evaluates more than one alternative of the query.
C9_OneAlternativePerPoll ==
    op = "waitForElement" => Cardinality(probed) <= 1

\* C10: when the lower-priority alternative is the only one that ever became
\* visible during a resolve call with a 2000 ms timeout, and it is visible
\* when the call ends, the call has returned and what it returned resolves
\* to the node of that alternative.
C10_LowerPriorityResolves ==
    (Ended("waitForElement") /\ timeoutOpt = CallerTimeoutMs
        /\ seenVisible = {Len(Query)} /\ VisibleAlts = {Len(Query)}) =>
        /\ outcome = "returned"
        /\ Element # 0
        /\ NodeAlt(Element) = Len(Query)

C12_SafeClickOrder ==
    op = "safeClick" =>
        /\ clicks > 0 => matched # 0
        /\ (phase = "running" /\ CurStep = "settle") => clicks = 1
        /\ (phase = "running" /\ CurStep # "settle") => clicks = 0
        /\ (phase = "done" /\ outcome = "returned") =>
               /\ Steps(op)[step] = "settle" /\ clicks = 1
               /\ elapsed >= DelayTicks(SettleDelayMs)
        /\ (phase = "done" /\ Steps(op)[step] # "settle") =>
               (outcome = "threw" /\ raised # "none" /\ clicks = 0)

C12_Witness ==
    /\ Ended("safeClick") /\ FailedAt("click") /\ raised = "NotVisible"
    /\ matched # 0 /\ clicks = 0

\* C13: with tests running in parallel, a test acts only on the page handed
\* to its own beforeEach: while a body runs, the worker's page object wraps
\* the running test's page and every action reached that page; two tests
\* running at the same time never have the same page, nor page objects on
\* the same page.
C13_OwnPageOnly ==
    /\ \A w \in Slots :
         /\ wstep[w] = "body" => homePage[w] = Fixture(w)
         /\ actedOn[w] # NoPage => (wstep[w] = "body" /\ actedOn[w] = Fixture(w))
    /\ \A w1, w2 \in Slots :
         (w1 # w2 /\ slot[w1] # 0 /\ slot[w2] # 0) =>
             /\ Fixture(w1) # Fixture(w2)
             /\ (wstep[w1] = "body" /\ wstep[w2] = "body") => homePage[w1] # homePage[w2]

\* Two tests act at the same time, one of them in a worker that ran another
\* test before.
C13_Witness ==
    \E w1, w2 \in Slots :
        /\ w1 # w2
        /\ actedOn[w1] # NoPage /\ actedOn[w2] # NoPage
        /\ \E t \in Tests : tstate[t] = "passed"

\* C14: over any number of open/close cycles, the modal is visible whenever
\* openCart has returned and not visible whenever closeCart has returned, so
\* an openCart that has not yet clicked starts from a closed modal.
C14_OpenCloseCycles ==
    /\ (pagePhase = "returned" /\ pageOp = "openCart") => cartModal = "visible"
    /\ (pagePhase = "returned" /\ pageOp = "closeCart") => cartModal # "visible"
    /\ (pagePhase = "running" /\ pageOp = "openCart"
          /\ PageStep.await \in {"waitVisible", "waitAttached", "click"}
          /\ PageStep.on = "cartButton") => cartModal # "visible"

C14_Witness ==
    /\ pagePhase = "returned" /\ pageOp = "closeCart"
    /\ cycles >= 2 /\ cartModal = "detached"

\* C15: a WhatsApp test in which the click opened a new page passes only if
\* the page's URL contains every expected fragment; a new page with any
\* other URL makes the test fail.
C15_WrongUrlFails ==
    (waPc \in {"passed", "failed"} /\ popup # {}) =>
        (waPc = "passed" <=>
            \A u \in popup : \A frag \in Expected(waTest) : Contains(u, frag))

\* C16: the logo check passes whenever the URL after clickLogo is the site
\* URL or ends with "/", whatever the base URL.
C16_LogoCheckPasses ==
    (logoPc \in {"passed", "failed"}
        /\ (pageUrl = SiteUrl \/ EndsWith(pageUrl, "/"))) => logoPc = "passed"

\* C17 (as stated): getCartItemCount returns an integer that is at least 0
\* in every state of the cart counter.
C17_CountNeverNegative ==
    \A r \in countResult : ~r.nan /\ r.n >= 0

\* The text starts, after whitespace only, with a minus sign directly
\* followed by digits that are not all 0.
NegativeText(str) ==
    \E i, k \in DOMAIN str :
        /\ i < k
        /\ \A j \in 1 .. i - 1 : str[j] = " "
        /\ str[i] = "-"
        /\ \A j \in i + 1 .. k : IsDigit(str[j])
        /\ str[k] # "0"

\* C17 (amended): getCartItemCount returns an integer in every state of the
\* cart counter; it returns 0 when the counter is not visible, and a negative
\* number exactly when the counter is visible and its text starts with a
\* negative number.
C17_CountSign ==
    \A r \in countResult :
        /\ ~r.nan
        /\ ~counter.vis => r.n = 0
        /\ r.n < 0 <=> (counter.vis /\ NegativeText(counter.text))

C17_Witness ==
    /\ counter.vis /\ counter.text = << "-", "1" >>
    /\ countResult = {Num(-1)}

\* C18: "suite" and "run" start a Playwright run only after
\* check_app_running succeeded in the same invocation; with the app
\* unreachable or the suite/option argument missing, no run is started and
\* the script exits with status 1.
C18_RunOnlyAfterCheck ==
    /\ runs <= 1
    /\ runs > 0 => (checked /\ appUp /\ Cmd \in {"suite", "run"})
    /\ (shPc = "tool" /\ Cmd \in {"suite", "run"}) => (checked /\ appUp)
    /\ (shPc = "exited" /\ Cmd \in {"suite", "run"} /\ (~appUp \/ IsEmpty(shArg))) =>
           (runs = 0 /\ exitStatus = 1)

C18_Witness ==
    /\ shPc = "exited" /\ Cmd = "suite" /\ Arg = "cart"
    /\ hasConfig /\ ~appUp /\ ~checked /\ runs = 0 /\ exitStatus = 1

\* C19: the final line is printed only when the selected command completed
\* successfully; an unknown command, suite or option, a failed "check" and a
\* failing test run each end the script with a non-zero status and without
\* the line.
C19_CompletedOnlyOnSuccess ==
    /\ completed =>
         /\ shPc = "exited" /\ exitStatus = 0 /\ toolExit \subseteq {0}
         /\ Cmd \in CmdWords \ {"deploy"}
         /\ Cmd = "check" => appUp
         /\ Cmd = "suite" => Arg \in KnownSuites /\ runs = 1
         /\ Cmd = "run" => Arg \in KnownOptions /\ runs = 1
    /\ (shPc = "exited" /\
          \/ Cmd \notin CmdWords \ {"deploy"}
          \/ Cmd = "suite" /\ Arg \notin KnownSuites
          \/ Cmd = "run" /\ Arg \notin KnownOptions
          \/ Cmd = "check" /\ ~appUp
          \/ toolExit \notin {{}, {0}}) =>
           (exitStatus # 0 /\ ~completed)

C19_Witness ==
    /\ shPc = "exited" /\ Cmd = "suite" /\ Arg = "all" /\ runs = 1
    /\ toolExit = {1} /\ exitStatus = 1 /\ ~completed

\* C20 (as stated): with CI set a failing test is executed again at most
\* twice and only one worker executes tests; with CI unset no test is
\* executed again.
C20_RetryWhenCISet ==
    /\ envCI # {} => /\ \A t \in Tests : attempts[t] <= 1 + 2
                     /\ \A w \in Slots : slot[w] # 0 => w = 1
    /\ envCI = {} => \A t \in Tests : attempts[t] <= 1

\* C20 (amended): the configuration tests the truthiness of CI.  With CI set
\* to a non-empty value a failing test is executed again at most twice, a
\* test ends as failed only after its third execution, and only one worker
\* executes tests; with CI unset or set to the empty string no test is
\* executed again and the runner uses its own worker count.
C20_RetryWhenCITruthy ==
    /\ Truthy(envCI) =>
         /\ \A t \in Tests : /\ attempts[t] <= 1 + 2
                             /\ tstate[t] = "failed" => attempts[t] = 1 + 2
         /\ \A w \in Slots : slot[w] # 0 => w = 1
    /\ ~Truthy(envCI) =>
         /\ \A t \in Tests : attempts[t] <= 1
         /\ \A w \in Slots : slot[w] # 0 => w <= DefaultWorkers(cores)

C20_Witness ==
    /\ envCI = {"false"}
    /\ \E t \in Tests : tstate[t] = "failed" /\ attempts[t] = 3

\* The operations that close a modal, and the last await of each.
Closers == {"closeCart", "closeProductModal"}
AtDisappearWait == pageStep = Len(PageSteps(pageOp))

Submits == {i \in DOMAIN progDone : progDone[i] \in {"safeClick", "press"}}

\* C22: searchProducts submits the search at most once, only after safeFill
\* returned (the value filled and verified), by a click when elementExists
\* reported the button and by Enter otherwise; a call that returns has
\* submitted exactly once.
C22_SearchSubmitsOnce ==
    prog = "HomePage.searchProducts" =>
        /\ Cardinality(Submits) <= 1
        /\ \A i \in Submits :
             /\ i > 1 /\ progDone[1] = "safeFill"
             /\ progDone[i] = (IF progFlag = "found" THEN "safeClick" ELSE "press")
        /\ progPhase = "returned" => Cardinality(Submits) = 1

C22_Witness ==
    /\ prog = "HomePage.searchProducts" /\ progPhase = "returned"
    /\ progFlag = "notFound"
    /\ progDone = << "safeFill", "press", "waitForPageLoad" >>

\* C23: in the state in which elementExists has answered true, the wait
\* that safeClick starts with (its first await, on the same selector) is
\* satisfied, so a safeClick issued on the unchanged page does not fail
\* while waiting for the element.
C23_ExistsThenClickable ==
    (Ended("elementExists") /\ retval = "true") =>
        Verdict(StepCond(safeClick[1])) = "ok"

\* The text starts with an integer: a digit, or a minus sign and a digit.
StartsWithInteger(str) ==
    /\ str # << >>
    /\ \/ IsDigit(str[1])
       \/ str[1] = "-" /\ Len(str) >= 2 /\ IsDigit(str[2])

\* The integer a text that starts with one starts with: its sign and its
\* longest run of digits.
IntegerAtStart(str) ==
    LET first == IF str[1] = "-" THEN 2 ELSE 1
        last == CHOOSE k \in first .. Len(str) :
                    /\ \A j \in first .. k : IsDigit(str[j])
                    /\ k = Len(str) \/ ~IsDigit(str[k + 1])
        sum[j \in first - 1 .. last] ==
            IF j < first THEN 0 ELSE 10 * sum[j - 1] + DigitValue(str[j])
    IN  (IF str[1] = "-" THEN -1 ELSE 1) * sum[last]

\* The text without the spaces it begins with.
AfterSpaces(str) ==
    LET lead == {i \in DOMAIN str : \A j \in 1 .. i : str[j] = " "}
    IN  SubSeq(str, Cardinality(lead) + 1, Len(str))

\* What a reading of the text from position 1 yields.
CountFrom(visible, str) ==
    IF visible /\ StartsWithInteger(str) THEN Num(IntegerAtStart(str)) ELSE Num(0)

C25_ImagesCountedAndPass ==
    imgPc \in {"passed", "failed"} =>
        /\ loadedImages + failedImages = Len(images)
        /\ failedImages = 0 => imgPc = "passed"

\* The operations that act on a control only when it is visible.
OptionalOps ==
    {"TequilaPage.sortProducts", "TequilaPage.filterByBrand",
     "HomePage.filterByCategory", "HomePage.sortProducts",
     "TequilaPage.searchTequilas", "TequilaPage.loadMoreProducts",
     "TequilaPage.viewTequilaDetails"}

\* C26: an optional-control operation whose control was not visible at the
\* check performs no interaction and does not fail; one whose control was
\* visible returns only after the interaction and the wait that follows it,
\* and leaves the interaction out only when the page itself refuses it.
C26_OptionalControls ==
    prog \in OptionalOps =>
        /\ progFlag = "notFound" => (progDone = << >> /\ progPhase # "threw")
        /\ (progFlag = "found" /\ progPhase = "returned") =>
              /\ Len(progDone) >= 2
              /\ progDone[Len(progDone)] \in {"waitForPageLoad", "waitForElement"}
        /\ (progFlag = "found" /\ progPhase = "threw" /\ progDone = << >>) =>
              progRaised = "page"

\* The helpers that take a selector.
SelectorHelpers ==
    {"waitForElement", "safeClick", "safeFill", "elementExists",
     "waitForElementToDisappear"}

\* C28: whenever a page-object operation is about to call a helper that
\* takes a selector, the value it passes is a selector string.
C28_SelectorsAreStrings ==
    (AtStatement /\ Selected /\ prog \in PageObjectOps
        /\ Cur.name \in SelectorHelpers) => Cur.arg = "string"

\* C29: no test flow is about to invoke an operation that opens a modal
\* while that modal is still open.
C29_NoReopen ==
    (AtStatement /\ Selected /\ prog \in TestFlows /\ Cur.do = "call") =>
        Opens(Cur.name) \cap openModals = {}

\* C27: globalSetup leaves NODE_ENV as it is when it is set to a non-empty
\* value and sets it to "test" otherwise, and does not touch it again; it
\* has waited 3000 ms when it completes if config.webServer is defined and
\* has not waited otherwise; it never raises, and once called it completes.
C27_GlobalSetup ==
    /\ [][(setupPc = "env" /\ setupPc' # "env") =>
             nodeEnv' = (IF nodeEnv = {} \/ nodeEnv = {""} THEN {"test"} ELSE nodeEnv)]_vars
    /\ [][setupPc \notin {"idle", "env"} => nodeEnv' = nodeEnv]_vars
    /\ [](setupPc = "completed" =>
             setupWaited = (IF webServer # {} THEN Ticks(SetupWaitMs) ELSE 0))
    /\ [](setupPc # "raised")
    /\ (setupPc = "env" ~> setupPc = "completed")

C27_Witness ==
    /\ setupPc = "completed" /\ nodeEnv = {"production"}
    /\ webServer # {} /\ setupWaited = Ticks(SetupWaitMs)

\* C30: a measurement promise is pending only until its fallback delay has
\* elapsed (5000 ms for FCP, 3000 ms for LCP): once the timer has fired it
\* is settled, and the test is never ended by the test timeout while it
\* awaits the promise.
C30_PromiseSettles ==
    /\ promise = "pending" =>
          (~timerFired /\ measured <= Ticks(FallbackMs(metric)))
    /\ testPc # "timedOut"

\* The narrower case of C10: with the lower-priority node as the only
\* candidate attached when the call ends, and visible, the call has returned
\* it.
ResolveSingleCandidate ==
    (Ended("waitForElement") /\ VisibleAlts = {Len(Query)}
        /\ Cardinality(Resolved) = 1) =>
        (outcome = "returned" /\ NodeAlt(Element) = Len(Query))

TypeOK ==
    /\ dom \in [Nodes -> NodeStates]
    /\ op \in Ops \cup {"idle"}
    /\ phase \in {"idle", "running", "done"}
    /\ elapsed \in 0 .. Ticks(NavigationTimeoutMs)
    /\ matched \in 0 .. MaxNodes
    /\ outcome \in {"none", "returned", "threw"}
====
